---- MODULE Spec2Model ----
(***************************************************************************)
(* Nadha voice chat loop (src/app.js).  The file holds three variants of   *)
(* the application:                                                        *)
(*   "A"  lines    1..298   Web Speech STT, Web Speech synthesis, manual   *)
(*   "B"  lines  300..1079  Whisper STT (always-on), Supertonic TTS        *)
(*   "C"  lines 1081..1467  Web Speech STT, Supertonic TTS, manual         *)
(* One step of the model is one run of a handler from the moment the       *)
(* event loop calls it until it returns or awaits something not yet        *)
(* settled (JavaScript runs a handler and its microtasks to completion).   *)
(* Texts are sequences of characters; a character is a string.  A word     *)
(* recognised in listening session k is the character ToString(k), so a    *)
(* text tells which session it was heard in.                               *)
(***************************************************************************)
EXTENDS Integers, Sequences, FiniteSets, TLC

VARIABLES
    variant,          \* which of the three variants runs
    initPc,           \* position of init()
    modelLoaded,      \* state.modelLoaded
    ttsReady,         \* state.ttsReady
    whisperReady,     \* state.whisperReady
    progressPct,      \* elements.progress.style.width, without the "%"
    progressText,     \* elements.progressText.textContent
    loaderAt,         \* history: the progress <<done, of>> the loader of the running
                      \*    phase reported last
    loadingHidden,    \* elements.loading has the class hidden
    isListening,      \* state.isListening
    isProcessing,     \* state.isProcessing
    isSpeaking,       \* state.isSpeaking
    status,           \* elements.status.className, without the "status " prefix
    statusText,       \* elements.statusText.textContent
    userText,         \* elements.userText.textContent
    aiText,           \* elements.aiText.textContent
    llmPc,            \* position of the running processWithLLM call
    llmInput,         \* userInput of the last generation call started
    response,         \* the pieces streamed so far by the running createCompletion
    ttsText,          \* text of the synthesis request in flight
    rec,              \* A, C: the browser's SpeechRecognition session
    session,          \* number of recognition sessions started so far
    micPending,       \* A: toggleVoice calls awaiting getUserMedia
    heard,            \* history: the best non-blank result of the current session
    lastError,        \* history: the reason of the current session's last error event
    utter,            \* utterances queued or spoken by speechSynthesis
    utterText,        \* text of the utterance last passed to speechSynthesis.speak
    utterDying,       \* cancelled utterances whose end/error event is pending
    audios,           \* C: Audio elements of speak() that are playing
    whisper,          \* B: whisper-stt.js is listening (isListening())
    timers,           \* B: pending setTimeout(startAlwaysOnListening) calls
    userStopped,      \* history: a click stopped listening or speech, and listening
                      \*    has not started since
    poll,             \* B: pending setTimeout(checkSpeech) calls of waitForSpeechEnd
    ack,              \* B: the acknowledgment clip of the running turn
    ttsPromise,       \* B: the promise of generateTTSAudio for the running turn
    prebaked,         \* B: state.prebakedAudio.length
    prebakePc,        \* B: phrases prebakeAcknowledgments has still to do
    audio,            \* B: the Audio element last made by playGeneratedAudio
    currentAudio,     \* B: currentAudio is not null
    speechQueue,      \* B: speechQueue
    isSpeakingQueue,  \* B: isSpeakingQueue
    chains,           \* B: the processQueue calls under way, each with its position,
                      \*    its text and whether its Audio element is the last made
    liveUrls,         \* B: object URLs of processQueue not yet revoked
    enqueued,         \* history: the texts speakSentence pushed, in order
    synthLog,         \* history: the texts processQueue asked state.tts.call for
    playLog,          \* history: the texts whose audio processQueue started
    qFault            \* history: a synthesis or a playback of the queue failed

flags  == <<isListening, isProcessing, isSpeaking>>
loadv  == <<initPc, modelLoaded, ttsReady, whisperReady, progressPct, progressText,
            loaderAt, loadingHidden>>
dom    == <<status, statusText, userText, aiText>>
llmv   == <<llmPc, llmInput, response, ttsText>>
recv   == <<rec, session, micPending, heard, lastError>>
synthv == <<utter, utterText, utterDying, audios>>
qlogs  == <<liveUrls, enqueued, synthLog, playLog, qFault>>
queuev == <<chains, qlogs>>
bv     == <<whisper, timers, userStopped, poll, ack, ttsPromise, prebaked, prebakePc, audio, currentAudio,
            speechQueue, isSpeakingQueue, queuev>>
vars   == <<variant, flags, loadv, dom, llmv, recv, synthv, bv>>

----------------------------------------------------------------------------
(* Bounds of the model. *)
MaxSessions == 3
MaxResults  == 1
MaxTokens   == 1
MaxPending  == 2
MaxUtter    == 2
MaxAudios   == 2
\* the phrases of acknowledgmentPhrases the model goes through (the code has six)
MaxPhrases  == 2
\* the size a loader reports progress of, in Spec and in SpecLoad
MaxTotal     == 1
MaxLoadTotal == 8
\* the percentages the Whisper loader reports in Spec
WhisperPcts == {0, 50, 100}

----------------------------------------------------------------------------
(* Texts. *)
SP     == " "
QUOTE  == "\""
DOT    == "."
ENDTAG == "<|im_end|>"
Word(k) == ToString(k)

RECURSIVE TrimStart(_)
TrimStart(s) ==
    IF s # <<>> /\ Head(s) = SP THEN TrimStart(Tail(s)) ELSE s

RECURSIVE TrimEnd(_)
TrimEnd(s) ==
    IF s # <<>> /\ s[Len(s)] = SP THEN TrimEnd(SubSeq(s, 1, Len(s) - 1)) ELSE s

\* String.prototype.trim
Trim(s) == TrimEnd(TrimStart(s))

\* text.replace(/^"|"$/g, ''): a leading quote and a trailing quote go; one
\* character is not matched twice.
StripQuotes(s) ==
    LET lead  == s # <<>> /\ Head(s) = QUOTE
        rest  == IF lead THEN Tail(s) ELSE s
        trail == rest # <<>> /\ rest[Len(rest)] = QUOTE
    IN  IF trail THEN SubSeq(rest, 1, Len(rest) - 1) ELSE rest

RECURSIVE CutAtEnd(_)
CutAtEnd(s) ==
    IF s = <<>> \/ Head(s) = ENDTAG THEN <<>> ELSE <<Head(s)>> \o CutAtEnd(Tail(s))

\* response.replace(/<\|im_end\|>.*$/s, '').trim()
CleanResponse(s) == Trim(CutAtEnd(s))

\* `"${text}"`
Quoted(t) == <<QUOTE>> \o t \o <<QUOTE>>

\* The string made of the pieces, in order (response += piece).
RECURSIVE Join(_)
Join(pieces) ==
    IF pieces = <<>> THEN <<>> ELSE Head(pieces) \o Join(Tail(pieces))

----------------------------------------------------------------------------
(* What the runtimes can deliver. *)

\* The transcripts a result of session k can carry: blank or a word.
Transcripts(k) == {<<SP>>, <<Word(k)>>}

\* event.results from event.resultIndex on, for a result event of session k.
ResultLists(k) ==
    UNION {[1..n -> [transcript : Transcripts(k), isFinal : BOOLEAN]] : n \in 1..MaxResults}

\* The pieces createCompletion can stream: a long word, a short word, a blank
\* and the end marker.
Pieces == {<<"r", "r", "r">>, <<"r">>, <<SP>>, <<ENDTAG>>}

\* The loop of onresult: the transcripts of the results whose isFinal is f,
\* joined in order.
RECURSIVE Collect(_, _)
Collect(results, f) ==
    IF results = <<>> THEN <<>>
    ELSE (IF Head(results).isFinal = f THEN Head(results).transcript ELSE <<>>)
         \o Collect(Tail(results), f)

\* The history of a session after a result with these transcripts.
HeardAfter(h, finalTranscript, interimTranscript) ==
    IF Trim(finalTranscript) # <<>> THEN "final"
    ELSE IF h = "none" /\ Trim(interimTranscript) # <<>> THEN "interim"
    ELSE h

\* finalTranscript || interimTranscript
DisplayText(results) ==
    IF Collect(results, TRUE) # <<>> THEN Collect(results, TRUE)
    ELSE Collect(results, FALSE)

----------------------------------------------------------------------------
Init ==
    /\ variant \in {"A", "B", "C"}
    /\ initPc = IF variant = "A" THEN "llm" ELSE "tts"
    /\ modelLoaded = FALSE /\ ttsReady = FALSE /\ whisperReady = FALSE
    /\ progressPct = (IF variant = "A" THEN 10 ELSE 0) /\ loaderAt = <<0, 1>>
    /\ progressText = "Initializing..." /\ loadingHidden = FALSE
    /\ isListening = FALSE /\ isProcessing = FALSE /\ isSpeaking = FALSE
    /\ status = "loading" /\ statusText = ""
    /\ userText = <<>> /\ aiText = <<>>
    /\ llmPc = "none" /\ llmInput = <<>> /\ response = <<>> /\ ttsText = <<>>
    /\ rec = "off" /\ session = 0 /\ micPending = 0 /\ heard = "none" /\ lastError = "none"
    /\ utter = 0 /\ utterText = <<>> /\ utterDying = 0 /\ audios = 0
    /\ whisper = FALSE
    /\ timers = [init |-> 0, final |-> 0, wait |-> 0]
    /\ userStopped = FALSE
    /\ poll = 0 /\ ack = "none" /\ ttsPromise = "none"
    /\ prebaked = 0 /\ prebakePc = 0
    /\ audio = "none" /\ currentAudio = FALSE
    /\ speechQueue = <<>> /\ isSpeakingQueue = FALSE
    /\ chains = <<>> /\ liveUrls = 0
    /\ enqueued = <<>> /\ synthLog = <<>> /\ playLog = <<>> /\ qFault = FALSE

\* setStatus(status, text)
SetStatus(s, t) == status' = s /\ statusText' = t

----------------------------------------------------------------------------
(* The browser's SpeechRecognition object (variants A and C). *)

\* recognition.start() throws InvalidStateError unless the session is off.
CanStart == rec = "off"

\* The reasons an error event can carry: a benign one and a failure.
RecErrors == {"no-speech", "network"}

\* recognition.stop(): a started session winds down; otherwise nothing.
AfterStop(r) == IF r \in {"starting", "on"} THEN "stopping" ELSE r

----------------------------------------------------------------------------
(* Loading. *)

\* updateProgress(pct, text) (52-58, 405-411, 1147-1153); when a phase of
\* the load starts its loader has reported nothing
UpdateProgress(pct, text) ==
    /\ progressPct' = pct
    /\ progressText' = text
    /\ loaderAt' = <<0, 1>>

\* Math.round(n / d) for n >= 0 and d > 0: the nearest integer, a half
\* going up
Round(n, d) == (2 * n + d) \div (2 * d)

\* the percentage of the progress callbacks with the weight of the LLM
\* phase of variant B taken as 45 for 35
ProgressPct_Wide(loaded, total) ==
    IF initPc = "tts" THEN Round(loaded * 25, total)
    ELSE IF variant = "A" THEN 10 + Round(loaded * 80, total)
    ELSE IF variant = "B" THEN 60 + Round(loaded * 45, total)
    ELSE 30 + Round(loaded * 60, total)

\* the percentage the progress callbacks of loadTextToSpeech (431, 1173)
\* and of loadModelFromHF (76, 513, 1209) pass to updateProgress
ProgressPct(loaded, total) ==
    IF initPc = "tts" THEN Round(loaded * 25, total)
    ELSE IF variant = "A" THEN 10 + Round(loaded * 80, total)
    ELSE IF variant = "B" THEN 60 + Round(loaded * 35, total)
    ELSE 30 + Round(loaded * 60, total)

\* A progress callback of the TTS or LLM runtime being loaded calls
\* updateProgress (76-78, 430-433, 513-515, 1172-1174, 1208-1210); the text
\* it shows is a percentage or a file count, here "%".
loadProgress(loaded, total) ==
    /\ initPc \in {"tts", "llm"}
    /\ progressPct' = ProgressPct(loaded, total)
    /\ progressText' = "%"
    /\ loaderAt' = <<loaded, total>>
    /\ UNCHANGED <<variant, flags, initPc, modelLoaded, ttsReady, whisperReady,
                   loadingHidden, dom, llmv, recv, synthv, bv>>

\* The progress callback of initWhisperSTT (1041-1043), which gets a
\* percentage
whisperProgress(pct) ==
    /\ initPc = "whisper"
    /\ progressPct' = 30 + Round(pct * 25, 100)
    /\ progressText' = "%"
    /\ loaderAt' = <<pct, 100>>
    /\ UNCHANGED <<variant, flags, initPc, modelLoaded, ttsReady, whisperReady,
                   loadingHidden, dom, llmv, recv, synthv, bv>>

----------------------------------------------------------------------------
(* Variant A: lines 1..298. *)

\* init (276-296) awaiting initLLM (64-89)
initA(ok) ==
    /\ variant = "A" /\ initPc = "llm"
    /\ modelLoaded' = ok
    /\ initPc' = IF ok THEN "ready" ELSE "failed"
    /\ UpdateProgress(IF ok THEN 100 ELSE 0,
                      IF ok THEN "Ready!" ELSE "Error loading LLM")
    /\ loadingHidden' = ok
    /\ IF ok THEN SetStatus("idle", "Click to speak")
             ELSE UNCHANGED <<status, statusText>>
    /\ UNCHANGED <<variant, flags, ttsReady, whisperReady, userText, aiText,
                   llmv, recv, synthv, bv>>

\* processWithLLM without the test of state.isProcessing at 171
processWithLLMA_NoGuard(userInput) ==
    IF ~modelLoaded
    THEN UNCHANGED <<isProcessing, status, statusText, aiText, llmv>>
    ELSE /\ isProcessing' = TRUE
         /\ SetStatus("thinking", "Thinking...")
         /\ aiText' = <<>>
         /\ llmPc' = "gen"
         /\ llmInput' = userInput
         /\ response' = <<>>
         /\ UNCHANGED ttsText

\* processWithLLM (170-181) up to the await of createCompletion, as called by
\* onend: the conjuncts on isProcessing, status, aiText and the llm variables.
processWithLLMA(userInput) ==
    IF ~modelLoaded \/ isProcessing
    THEN UNCHANGED <<isProcessing, status, statusText, aiText, llmv>>
    ELSE /\ isProcessing' = TRUE
         /\ SetStatus("thinking", "Thinking...")
         /\ aiText' = <<>>
         /\ llmPc' = "gen"
         /\ llmInput' = userInput
         /\ response' = <<>>
         /\ UNCHANGED ttsText

\* speak (212-237)
speakA(text) ==
    IF text = <<>>
    THEN /\ SetStatus("idle", "Click to speak")
         /\ UNCHANGED <<isSpeaking, utter, utterText>>
    ELSE /\ utter < MaxUtter
         /\ isSpeaking' = TRUE
         /\ SetStatus("speaking", "Speaking...")
         /\ utter' = utter + 1
         /\ utterText' = text

\* toggleVoice without its test of state.modelLoaded (244)
toggleVoiceA_Unguarded ==
    /\ variant = "A"
    /\ IF isSpeaking \/ isListening \/ isProcessing THEN UNCHANGED vars
       ELSE /\ micPending < MaxPending
            /\ micPending' = micPending + 1
            /\ UNCHANGED <<variant, flags, loadv, dom, llmv, rec, session, heard, lastError,
                           synthv, bv>>

\* toggleVoice (243-270) up to its return or the await of getUserMedia
toggleVoiceA ==
    /\ variant = "A"
    /\ IF ~modelLoaded THEN UNCHANGED vars
       ELSE IF isSpeaking THEN
            \* state.synth.cancel()
            /\ utterDying' = utterDying + utter
            /\ utter' = 0
            /\ utterText' = <<>>
            /\ isSpeaking' = FALSE
            /\ SetStatus("idle", "Click to speak")
            /\ UNCHANGED <<variant, isListening, isProcessing, loadv, userText,
                           aiText, llmv, recv, audios, bv>>
       ELSE IF isListening THEN
            /\ rec' = AfterStop(rec)
            /\ UNCHANGED <<variant, flags, loadv, dom, llmv, session, micPending, heard, lastError,
                           synthv, bv>>
       ELSE IF isProcessing THEN UNCHANGED vars
       ELSE /\ micPending < MaxPending
            /\ micPending' = micPending + 1
            /\ UNCHANGED <<variant, flags, loadv, dom, llmv, rec, session, heard, lastError,
                           synthv, bv>>

\* toggleVoice (262-265): getUserMedia resolved, recognition.start() is called
micGrantedA ==
    /\ variant = "A" /\ micPending > 0
    /\ micPending' = micPending - 1
    /\ IF CanStart
       THEN /\ session < MaxSessions
            /\ rec' = "starting"
            /\ session' = session + 1
            /\ heard' = "none"
            /\ lastError' = "none"
            /\ UNCHANGED <<status, statusText>>
       ELSE \* start() throws, the catch at 266-269 runs
            /\ SetStatus("idle", "Mic access denied")
            /\ UNCHANGED <<rec, session, heard, lastError>>
    /\ UNCHANGED <<variant, flags, loadv, userText, aiText, llmv, synthv, bv>>

\* toggleVoice (266-269): getUserMedia rejected
micDeniedA ==
    /\ variant = "A" /\ micPending > 0
    /\ micPending' = micPending - 1
    /\ SetStatus("idle", "Mic access denied")
    /\ UNCHANGED <<variant, flags, loadv, userText, aiText, llmv, rec, session,
                   heard, lastError, synthv, bv>>

\* recognition.onstart (107-112)
onstartA ==
    /\ variant = "A" /\ rec = "starting"
    /\ rec' = "on"
    /\ isListening' = TRUE
    /\ SetStatus("listening", "Listening...")
    /\ userText' = <<>>
    /\ UNCHANGED <<variant, isProcessing, isSpeaking, loadv, aiText, llmv,
                   session, micPending, heard, lastError, synthv, bv>>

\* recognition.onresult (114-137)
onresultA(results) ==
    /\ variant = "A" /\ rec \in {"on", "stopping"}
    /\ userText' = IF DisplayText(results) # <<>>
                   THEN Quoted(DisplayText(results)) ELSE userText
    /\ rec' = IF Trim(Collect(results, TRUE)) # <<>> THEN AfterStop(rec) ELSE rec
    /\ heard' = HeardAfter(heard, Collect(results, TRUE), Collect(results, FALSE))
    /\ UNCHANGED lastError
    /\ UNCHANGED <<variant, flags, loadv, status, statusText, aiText, llmv,
                   session, micPending, synthv, bv>>

\* recognition.onerror (151-160)
onerrorA(error) ==
    /\ variant = "A" /\ rec \in {"starting", "on", "stopping"}
    /\ rec' = "errored"
    /\ isListening' = FALSE
    /\ IF error = "no-speech" THEN SetStatus("idle", "No speech detected")
                              ELSE SetStatus("idle", "Error - try again")
    /\ lastError' = error
    /\ UNCHANGED <<variant, isProcessing, isSpeaking, loadv, userText, aiText,
                   llmv, session, micPending, heard, synthv, bv>>

\* recognition.onend (139-149)
onendA ==
    /\ variant = "A" /\ rec \in {"on", "stopping", "errored"}
    /\ rec' = "off"
    /\ isListening' = FALSE
    /\ LET userInput == Trim(StripQuotes(userText))
       IN  IF userInput # <<>>
           THEN processWithLLMA(userInput)
           ELSE /\ SetStatus("idle", "Click to speak")
                /\ UNCHANGED <<isProcessing, aiText, llmv>>
    /\ lastError' = "none"
    /\ UNCHANGED <<variant, isSpeaking, loadv, userText, session, micPending, heard,
                   synthv, bv>>

\* onNewToken (188-192)
onNewTokenA(piece) ==
    /\ variant = "A" /\ llmPc = "gen"
    /\ Len(response) < MaxTokens
    /\ response' = Append(response, piece)
    /\ aiText' = CleanResponse(Join(response'))
    /\ UNCHANGED <<variant, flags, loadv, status, statusText, userText, llmPc,
                   llmInput, ttsText, recv, synthv, bv>>

\* processWithLLM (195-199, 203-205): createCompletion resolved
completionDoneA ==
    /\ variant = "A" /\ llmPc = "gen"
    /\ LET finalResponse == CleanResponse(Join(response))
       IN  /\ aiText' = finalResponse
           /\ speakA(finalResponse)
    /\ isProcessing' = FALSE
    /\ llmPc' = "none"
    /\ llmInput' = <<>> /\ response' = <<>>
    /\ UNCHANGED <<variant, isListening, loadv, userText, ttsText, recv,
                   utterDying, audios, bv>>

\* processWithLLM (200-205): createCompletion rejected
completionFailedA ==
    /\ variant = "A" /\ llmPc = "gen"
    /\ SetStatus("idle", "Error - try again")
    /\ isProcessing' = FALSE
    /\ llmPc' = "none"
    /\ llmInput' = <<>> /\ response' = <<>>
    /\ UNCHANGED <<variant, isListening, isSpeaking, loadv, userText, aiText,
                   ttsText, recv, synthv, bv>>

\* utterance.onend (225-228) and utterance.onerror (230-234) of the utterance
\* being spoken
utteranceDoneA ==
    /\ variant = "A" /\ utter > 0
    /\ utter' = utter - 1
    /\ utterText' = IF utter = 1 THEN <<>> ELSE utterText
    /\ isSpeaking' = FALSE
    /\ SetStatus("idle", "Click to speak")
    /\ UNCHANGED <<variant, isListening, isProcessing, loadv, userText, aiText,
                   llmv, recv, utterDying, audios, bv>>

\* the same handlers, for an utterance that synth.cancel() removed
utteranceCancelledA ==
    /\ variant = "A" /\ utterDying > 0
    /\ utterDying' = utterDying - 1
    /\ isSpeaking' = FALSE
    /\ SetStatus("idle", "Click to speak")
    /\ UNCHANGED <<variant, isListening, isProcessing, loadv, userText, aiText,
                   llmv, recv, utter, utterText, audios, bv>>

NextA ==
    \/ \E ok \in BOOLEAN : initA(ok)
    \/ toggleVoiceA
    \/ micGrantedA
    \/ micDeniedA
    \/ onstartA
    \/ \E results \in ResultLists(session) : onresultA(results)
    \/ \E error \in RecErrors : onerrorA(error)
    \/ onendA
    \/ \E piece \in Pieces : onNewTokenA(piece)
    \/ completionDoneA
    \/ completionFailedA
    \/ utteranceDoneA
    \/ utteranceCancelledA

----------------------------------------------------------------------------
(* Variant C: lines 1081..1467. *)

\* init (1442-1465) awaiting initTTS (1159-1189)
initTTSC(ok) ==
    /\ variant = "C" /\ initPc = "tts"
    /\ ttsReady' = ok
    /\ initPc' = "llm"
    /\ UpdateProgress(30, "Initializing...")
    /\ UNCHANGED loadingHidden
    /\ UNCHANGED <<variant, flags, modelLoaded, whisperReady, dom, llmv, recv,
                   synthv, bv>>

\* init (1442-1465) awaiting initLLM (1195-1222)
initC(ok) ==
    /\ variant = "C" /\ initPc = "llm"
    /\ modelLoaded' = ok
    /\ initPc' = IF ok THEN "ready" ELSE "failed"
    /\ UpdateProgress(IF ok THEN 100 ELSE 0,
                      IF ok THEN "Ready!" ELSE "Error loading models")
    /\ loadingHidden' = ok
    /\ IF ok THEN SetStatus("idle", "Click to speak")
             ELSE UNCHANGED <<status, statusText>>
    /\ UNCHANGED <<variant, flags, ttsReady, whisperReady, userText, aiText,
                   llmv, recv, synthv, bv>>

\* processWithLLM (1296-1307) up to the await of createCompletion, as called
\* by onend
processWithLLMC(userInput) ==
    IF ~modelLoaded \/ isProcessing
    THEN UNCHANGED <<isProcessing, status, statusText, aiText, llmv>>
    ELSE /\ isProcessing' = TRUE
         /\ SetStatus("thinking", "Thinking...")
         /\ aiText' = <<>>
         /\ llmPc' = "gen"
         /\ llmInput' = userInput
         /\ response' = <<>>
         /\ UNCHANGED ttsText

\* fallbackSpeak (1387-1412)
fallbackSpeakC(text) ==
    IF text = <<>>
    THEN /\ SetStatus("idle", "Click to speak")
         /\ UNCHANGED <<isSpeaking, utter, utterText>>
    ELSE /\ utter < MaxUtter
         /\ isSpeaking' = TRUE
         /\ SetStatus("speaking", "Speaking...")
         /\ utter' = utter + 1
         /\ utterText' = text

\* toggleVoice (1418-1436)
toggleVoiceC ==
    /\ variant = "C"
    /\ IF ~modelLoaded THEN UNCHANGED vars
       ELSE IF isSpeaking THEN
            \* window.speechSynthesis.cancel()
            /\ utterDying' = utterDying + utter
            /\ utter' = 0
            /\ utterText' = <<>>
            /\ isSpeaking' = FALSE
            /\ SetStatus("idle", "Click to speak")
            /\ UNCHANGED <<variant, isListening, isProcessing, loadv, userText,
                           aiText, llmv, recv, audios, bv>>
       ELSE IF isListening THEN
            /\ rec' = AfterStop(rec)
            /\ UNCHANGED <<variant, flags, loadv, dom, llmv, session, micPending, heard, lastError,
                           synthv, bv>>
       ELSE IF isProcessing THEN UNCHANGED vars
       ELSE IF CanStart THEN
            /\ session < MaxSessions
            /\ rec' = "starting"
            /\ session' = session + 1
            /\ heard' = "none"
            /\ lastError' = "none"
            /\ UNCHANGED <<variant, flags, loadv, dom, llmv, micPending, synthv, bv>>
       ELSE \* recognition.start() throws out of the handler
            UNCHANGED vars

\* recognition.onstart (1241-1246)
onstartC ==
    /\ variant = "C" /\ rec = "starting"
    /\ rec' = "on"
    /\ isListening' = TRUE
    /\ SetStatus("listening", "Listening...")
    /\ userText' = <<>>
    /\ UNCHANGED <<variant, isProcessing, isSpeaking, loadv, aiText, llmv,
                   session, micPending, heard, lastError, synthv, bv>>

\* recognition.onresult (1248-1269)
onresultC(results) ==
    /\ variant = "C" /\ rec \in {"on", "stopping"}
    /\ userText' = Quoted(DisplayText(results))
    /\ rec' = IF Trim(Collect(results, TRUE)) # <<>> THEN AfterStop(rec) ELSE rec
    /\ heard' = HeardAfter(heard, Collect(results, TRUE), Collect(results, FALSE))
    /\ UNCHANGED lastError
    /\ UNCHANGED <<variant, flags, loadv, status, statusText, aiText, llmv,
                   session, micPending, synthv, bv>>

\* recognition.onerror (1285-1289)
onerrorC ==
    /\ variant = "C" /\ rec \in {"starting", "on", "stopping"}
    /\ rec' = "errored"
    /\ isListening' = FALSE
    /\ SetStatus("idle", "Click to speak")
    /\ lastError' \in RecErrors
    /\ UNCHANGED <<variant, isProcessing, isSpeaking, loadv, userText, aiText,
                   llmv, session, micPending, heard, synthv, bv>>

\* recognition.onend (1271-1283)
onendC ==
    /\ variant = "C" /\ rec \in {"on", "stopping", "errored"}
    /\ rec' = "off"
    /\ isListening' = FALSE
    /\ LET userInput == StripQuotes(userText)
       IN  IF Trim(userInput) # <<>>
           THEN processWithLLMC(userInput)
           ELSE /\ SetStatus("idle", "Click to speak")
                /\ UNCHANGED <<isProcessing, aiText, llmv>>
    /\ lastError' = "none"
    /\ UNCHANGED <<variant, isSpeaking, loadv, userText, session, micPending, heard,
                   synthv, bv>>

\* onNewToken (1318-1322)
onNewTokenC(piece) ==
    /\ variant = "C" /\ llmPc = "gen"
    /\ Len(response) < MaxTokens
    /\ response' = Append(response, piece)
    /\ aiText' = CleanResponse(Join(response'))
    /\ UNCHANGED <<variant, flags, loadv, status, statusText, userText, llmPc,
                   llmInput, ttsText, recv, synthv, bv>>

\* processWithLLM (1325-1329, 1333-1335) and speak (1342-1360): createCompletion
\* resolved; speak either falls back at once or awaits state.tts.call
completionDoneC ==
    /\ variant = "C" /\ llmPc = "gen"
    /\ LET finalResponse == CleanResponse(Join(response))
       IN  /\ aiText' = finalResponse
           /\ IF finalResponse = <<>> \/ ~ttsReady
              THEN /\ fallbackSpeakC(finalResponse)
                   /\ isProcessing' = FALSE
                   /\ llmPc' = "none"
                   /\ llmInput' = <<>> /\ response' = <<>>
                   /\ UNCHANGED ttsText
              ELSE /\ isSpeaking' = TRUE
                   /\ SetStatus("speaking", "Speaking...")
                   /\ llmPc' = "tts"
                   /\ ttsText' = finalResponse
                   /\ UNCHANGED <<isProcessing, utter, utterText, llmInput, response>>
    /\ UNCHANGED <<variant, isListening, loadv, userText, recv, utterDying,
                   audios, bv>>

\* processWithLLM (1330-1335): createCompletion rejected
completionFailedC ==
    /\ variant = "C" /\ llmPc = "gen"
    /\ SetStatus("idle", "Click to speak")
    /\ isProcessing' = FALSE
    /\ llmPc' = "none"
    /\ llmInput' = <<>> /\ response' = <<>>
    /\ UNCHANGED <<variant, isListening, isSpeaking, loadv, userText, aiText,
                   ttsText, recv, synthv, bv>>

\* speak (1362-1379) and processWithLLM (1333-1335): state.tts.call resolved,
\* the Audio element is made and play() is called; played is whether the
\* browser starts it
ttsDoneC(played) ==
    /\ variant = "C" /\ llmPc = "tts"
    /\ IF played THEN audios < MaxAudios /\ audios' = audios + 1
                 ELSE UNCHANGED audios
    /\ isProcessing' = FALSE
    /\ llmPc' = "none"
    /\ llmInput' = <<>> /\ response' = <<>> /\ ttsText' = <<>>
    /\ UNCHANGED <<variant, isListening, isSpeaking, loadv, dom, recv, utter, utterText,
                   utterDying, bv>>

\* speak (1380-1384) and processWithLLM (1333-1335): state.tts.call rejected
ttsFailedC ==
    /\ variant = "C" /\ llmPc = "tts"
    /\ fallbackSpeakC(ttsText)
    /\ isProcessing' = FALSE
    /\ llmPc' = "none"
    /\ llmInput' = <<>> /\ response' = <<>> /\ ttsText' = <<>>
    /\ UNCHANGED <<variant, isListening, loadv, userText, aiText, recv,
                   utterDying, audios, bv>>

\* audio.onended (1370-1374) and audio.onerror (1375-1378)
audioDoneC ==
    /\ variant = "C" /\ audios > 0
    /\ audios' = audios - 1
    /\ isSpeaking' = FALSE
    /\ SetStatus("idle", "Click to speak")
    /\ UNCHANGED <<variant, isListening, isProcessing, loadv, userText, aiText,
                   llmv, recv, utter, utterText, utterDying, bv>>

\* utterance.onend (1401-1404) and utterance.onerror (1406-1409) of the
\* utterance being spoken
utteranceDoneC ==
    /\ variant = "C" /\ utter > 0
    /\ utter' = utter - 1
    /\ utterText' = IF utter = 1 THEN <<>> ELSE utterText
    /\ isSpeaking' = FALSE
    /\ SetStatus("idle", "Click to speak")
    /\ UNCHANGED <<variant, isListening, isProcessing, loadv, userText, aiText,
                   llmv, recv, utterDying, audios, bv>>

\* the same handlers, for an utterance that speechSynthesis.cancel() removed
utteranceCancelledC ==
    /\ variant = "C" /\ utterDying > 0
    /\ utterDying' = utterDying - 1
    /\ isSpeaking' = FALSE
    /\ SetStatus("idle", "Click to speak")
    /\ UNCHANGED <<variant, isListening, isProcessing, loadv, userText, aiText,
                   llmv, recv, utter, utterText, audios, bv>>

NextC ==
    \/ \E ok \in BOOLEAN : initTTSC(ok)
    \/ \E ok \in BOOLEAN : initC(ok)
    \/ toggleVoiceC
    \/ onstartC
    \/ \E results \in ResultLists(session) : onresultC(results)
    \/ onerrorC
    \/ onendC
    \/ \E piece \in Pieces : onNewTokenC(piece)
    \/ completionDoneC
    \/ completionFailedC
    \/ \E played \in BOOLEAN : ttsDoneC(played)
    \/ ttsFailedC
    \/ audioDoneC
    \/ utteranceDoneC
    \/ utteranceCancelledC

----------------------------------------------------------------------------
(* Variant B: lines 300..1079.  whisper-stt.js is not part of the sources:  *)
(* its three calls are modelled from their use (start listens, stop ends    *)
(* listening at once, isListening tells which).                             *)


\* tokenBatch % 5 (604)
TokenBatch == 5

\* fullText.length > 2 (618)
MinSpoken == 2

\* The variables the turn logic of variant B reads and writes, as one value:
\* the functions below are the code's function bodies on that value.
BState ==
    [isListening |-> isListening, isProcessing |-> isProcessing,
     isSpeaking |-> isSpeaking, status |-> status, statusText |-> statusText,
     userText |-> userText, whisper |-> whisper, session |-> session,
     timers |-> timers, poll |-> poll, audio |-> audio,
     currentAudio |-> currentAudio, llmPc |-> llmPc, heard |-> heard,
     lastError |-> lastError, userStopped |-> userStopped]

SetB(st) ==
    /\ isListening' = st.isListening /\ isProcessing' = st.isProcessing
    /\ isSpeaking' = st.isSpeaking /\ status' = st.status
    /\ statusText' = st.statusText /\ userText' = st.userText
    /\ whisper' = st.whisper /\ session' = st.session
    /\ timers' = st.timers /\ poll' = st.poll /\ audio' = st.audio
    /\ currentAudio' = st.currentAudio /\ llmPc' = st.llmPc
    /\ heard' = st.heard /\ lastError' = st.lastError
    /\ userStopped' = st.userStopped

bstate == <<isListening, isProcessing, isSpeaking, status, statusText, userText,
            whisper, session, timers, poll, audio, currentAudio, llmPc, heard,
            lastError, userStopped>>

\* the rest of the variables variant B can change
restB == <<aiText, llmInput, response, ttsText, ack, ttsPromise>>

\* the locals of processWithLLM (userInput, tokens, fullText, ttsPromise) go
\* when the call st has come to has returned
LocalsB(st, promise, text) ==
    /\ llmInput' = IF st.llmPc = "none" THEN <<>> ELSE llmInput
    /\ response' = IF st.llmPc = "none" THEN <<>> ELSE response
    /\ ttsText' = IF st.llmPc = "none" THEN <<>> ELSE text
    /\ ttsPromise' = IF st.llmPc = "none" THEN "none" ELSE promise
\* the variables variant B never changes after init
fixedB == <<variant, rec, micPending, synthv, speechQueue, isSpeakingQueue, queuev>>

\* startContinuousListening(callbacks) of whisper-stt.js
startContinuousListening(st) ==
    [st EXCEPT !.whisper = TRUE, !.session = @ + 1, !.heard = "none",
               !.lastError = "none"]

\* stopContinuousListening() of whisper-stt.js
stopContinuousListening(st) == [st EXCEPT !.whisper = FALSE, !.lastError = "none"]

\* startAlwaysOnListening (937-975), without the callbacks
startAlwaysOnListening(st) ==
    IF ~whisperReady THEN st
    ELSE startContinuousListening(
            [st EXCEPT !.isListening = TRUE, !.status = "listening",
                       !.statusText = "Listening...", !.userText = <<>>,
                       !.userStopped = FALSE])

\* const isPlaying = currentAudio && !currentAudio.ended && !currentAudio.paused
\* (844): an element that failed is neither ended nor paused
IsPlaying(st) == st.currentAudio /\ st.audio \in {"playing", "error"}

\* checkSpeech (843-852)
checkSpeech(st) ==
    IF Len(speechQueue) > 0 \/ isSpeakingQueue \/ IsPlaying(st)
    THEN [st EXCEPT !.poll = @ + 1]
    ELSE [st EXCEPT !.isSpeaking = FALSE, !.status = "listening",
                    !.statusText = "Listening...",
                    !.timers = [@ EXCEPT !.wait = @ + 1]]

\* processWithLLM (641-643) and then onFinal (965-968), which awaited it
finishB(st) ==
    LET done == checkSpeech([st EXCEPT !.isProcessing = FALSE, !.llmPc = "none"])
    IN  IF modelLoaded /\ ~done.isSpeaking
        THEN [done EXCEPT !.timers = [@ EXCEPT !.final = @ + 1]]
        ELSE done

\* playGeneratedAudio (683-712) up to the await of the playback; played is
\* whether play() starts the element; if not, the catch at 707-710 runs and
\* processWithLLM goes on
playGeneratedAudio(st, played) ==
    LET quiet == IF st.whisper
                 THEN [stopContinuousListening(st) EXCEPT !.isListening = FALSE]
                 ELSE st
        made  == [quiet EXCEPT !.isSpeaking = TRUE, !.currentAudio = TRUE]
    IN  IF played
        THEN [made EXCEPT !.audio = "playing", !.llmPc = "play"]
        ELSE finishB([made EXCEPT !.audio = "blocked", !.isSpeaking = FALSE])

\* processWithLLM (633-643): the wait for the acknowledgment is over
afterAckB(st, promise, played) ==
    IF promise = "pending" THEN [st EXCEPT !.llmPc = "ttswait"]
    ELSE IF promise = "ready"
    THEN playGeneratedAudio([st EXCEPT !.status = "speaking",
                                       !.statusText = "Speaking..."], played)
    ELSE finishB(st)

\* init (1029-1036) awaiting initTTS (417-445); prebakeAcknowledgments starts
initTTSB(ok) ==
    /\ variant = "B" /\ initPc = "tts"
    /\ ttsReady' = ok
    /\ prebakePc' = IF ok THEN MaxPhrases ELSE 0
    /\ initPc' = "whisper"
    /\ UpdateProgress(30, "Initializing...")
    /\ UNCHANGED loadingHidden
    /\ UNCHANGED <<modelLoaded, whisperReady, prebaked, bstate, restB, fixedB>>

\* prebakeAcknowledgments (462-476): one state.tts.call settles
prebakeStepB(ok) ==
    /\ variant = "B" /\ prebakePc > 0
    /\ prebakePc' = prebakePc - 1
    /\ prebaked' = IF ok THEN prebaked + 1 ELSE prebaked
    /\ UNCHANGED <<loadv, bstate, restB, fixedB>>

\* init (1038-1048) awaiting initWhisperSTT
initWhisperB(ok) ==
    /\ variant = "B" /\ initPc = "whisper"
    /\ whisperReady' = ok
    /\ initPc' = "llm"
    /\ UpdateProgress(60, "Initializing...")
    /\ UNCHANGED loadingHidden
    /\ UNCHANGED <<modelLoaded, ttsReady, prebaked, prebakePc, bstate, restB, fixedB>>

\* init (1050-1056, 1074-1076) awaiting initLLM (501-526)
initLLMB(ok) ==
    /\ variant = "B" /\ initPc = "llm"
    /\ modelLoaded' = ok
    /\ initPc' = IF ok THEN "prewarm" ELSE "failed"
    /\ IF ok THEN UNCHANGED <<progressPct, progressText>> /\ loaderAt' = <<0, 1>>
             ELSE UpdateProgress(0, "Error loading models")
    /\ UNCHANGED loadingHidden
    /\ UNCHANGED <<ttsReady, whisperReady, prebaked, prebakePc, bstate, restB, fixedB>>

\* init (1055-1073) awaiting prewarmLLM (529-541)
initB ==
    /\ variant = "B" /\ initPc = "prewarm"
    /\ initPc' = "ready"
    /\ UpdateProgress(100, "Ready!")
    /\ loadingHidden' = TRUE
    /\ SetB([BState EXCEPT !.status = "idle", !.statusText = "Click to start",
                           !.timers = [@ EXCEPT !.init =
                                          IF whisperReady THEN 1 ELSE 0]])
    /\ UNCHANGED <<modelLoaded, ttsReady, whisperReady, prebaked, prebakePc,
                   restB, fixedB>>

\* currentAudio.pause() (991): the processQueue call whose element it is
\* waits for an ended event that never comes
StillRuns(chain) == ~(chain.cur /\ chain.pc = "playing")

\* what the stop block of toggleVoice reads and writes, as one value
StopState ==
    [audio |-> audio, currentAudio |-> currentAudio, chains |-> chains,
     speechQueue |-> speechQueue, isSpeakingQueue |-> isSpeakingQueue,
     utter |-> utter, utterText |-> utterText, utterDying |-> utterDying,
     isSpeaking |-> isSpeaking, status |-> status, statusText |-> statusText]

\* the stop block of toggleVoice (986-1003)
StopAll(st) ==
    [st EXCEPT !.audio = IF st.currentAudio /\ st.audio = "playing" THEN "paused" ELSE @,
               !.chains = IF st.currentAudio THEN SelectSeq(@, StillRuns) ELSE @,
               !.currentAudio = FALSE,
               !.speechQueue = <<>>,
               !.isSpeakingQueue = FALSE,
               !.utterDying = @ + st.utter,
               !.utter = 0,
               !.utterText = <<>>,
               !.isSpeaking = FALSE,
               !.status = "idle", !.statusText = "Click to speak"]

\* toggleVoice (977-1017)
toggleVoiceB ==
    /\ variant = "B"
    /\ IF ~modelLoaded THEN UNCHANGED vars
       ELSE IF isSpeaking \/ isSpeakingQueue THEN
            /\ SetB([BState EXCEPT
                        !.audio = IF currentAudio /\ audio = "playing"
                                  THEN "paused" ELSE @,
                        !.currentAudio = FALSE,
                        !.isSpeaking = FALSE,
                        !.status = "idle", !.statusText = "Click to speak",
                        !.userStopped = TRUE])
            /\ speechQueue' = <<>>
            /\ isSpeakingQueue' = FALSE
            /\ utterDying' = utterDying + utter
            /\ utter' = 0
            /\ utterText' = <<>>
            /\ chains' = IF currentAudio THEN SelectSeq(chains, StillRuns) ELSE chains
            /\ UNCHANGED <<variant, loadv, prebaked, prebakePc, restB, rec,
                           micPending, audios, qlogs>>
       ELSE IF whisper THEN
            /\ SetB([stopContinuousListening(BState) EXCEPT
                        !.isListening = FALSE,
                        !.status = "idle", !.statusText = "Click to speak",
                        !.userStopped = TRUE])
            /\ UNCHANGED <<loadv, prebaked, prebakePc, restB, fixedB>>
       ELSE IF ~isProcessing THEN
            /\ session < MaxSessions
            /\ SetB(startAlwaysOnListening(BState))
            /\ UNCHANGED <<loadv, prebaked, prebakePc, restB, fixedB>>
       ELSE UNCHANGED vars

\* a timer set at 1069, 967 or 850 fires: startAlwaysOnListening()
timerB(kind) ==
    /\ variant = "B" /\ timers[kind] > 0
    /\ session < MaxSessions
    /\ SetB(startAlwaysOnListening(
               [BState EXCEPT !.timers = [@ EXCEPT ![kind] = @ - 1]]))
    /\ UNCHANGED <<loadv, prebaked, prebakePc, restB, fixedB>>

\* the timer set at 846 fires: checkSpeech()
checkSpeechB ==
    /\ variant = "B" /\ poll > 0
    /\ SetB(checkSpeech([BState EXCEPT !.poll = @ - 1]))
    /\ UNCHANGED <<loadv, prebaked, prebakePc, restB, fixedB>>

\* onInterim (948-952)
onInterimB(text) ==
    /\ variant = "B" /\ whisper
    /\ SetB([BState EXCEPT !.userText = Quoted(text \o <<DOT, DOT, DOT>>),
                           !.heard = HeardAfter(@, <<>>, text),
                           !.status = "listening",
                           !.statusText = "Listening..."])
    /\ UNCHANGED <<loadv, prebaked, prebakePc, restB, fixedB>>

\* onError (971-973)
onErrorB ==
    /\ variant = "B" /\ whisper
    /\ lastError' \in RecErrors
    /\ UNCHANGED <<variant, flags, loadv, dom, llmv, rec, session, micPending,
                   heard, synthv, bv>>

\* onFinal (953-963) and processWithLLM (547-596) up to the await of
\* createCompletion; ackPlays is whether play() starts the acknowledgment
onFinalB(text, ackPlays) ==
    /\ variant = "B" /\ whisper
    /\ LET shown == [BState EXCEPT !.userText = Quoted(text),
                                   !.heard = HeardAfter(@, text, <<>>)]
           quiet == [stopContinuousListening(shown) EXCEPT !.isListening = FALSE]
       IN  IF Trim(text) # <<>> /\ ~isProcessing
           THEN IF ~modelLoaded \/ isProcessing
                THEN /\ SetB(quiet)
                     /\ UNCHANGED restB
                ELSE /\ SetB([quiet EXCEPT !.isProcessing = TRUE,
                                           !.status = "thinking",
                                           !.statusText = "Thinking...",
                                           !.llmPc = "gen"])
                     /\ aiText' = <<>>
                     /\ ack' = IF prebaked = 0 THEN "none"
                               ELSE IF ackPlays THEN "playing" ELSE "blocked"
                     /\ llmInput' = text
                     /\ response' = <<>>
                     /\ ttsPromise' = "none"
                     /\ UNCHANGED ttsText
           ELSE /\ SetB(shown)
                /\ UNCHANGED restB
    /\ UNCHANGED <<loadv, prebaked, prebakePc, fixedB>>

\* onNewToken (599-609)
onNewTokenB(piece) ==
    /\ variant = "B" /\ llmPc = "gen"
    /\ Len(response) < MaxTokens
    /\ response' = Append(response, piece)
    /\ aiText' = IF Len(response') % TokenBatch # 0 THEN aiText
                 ELSE CleanResponse(Join(response'))
    /\ UNCHANGED <<loadv, prebaked, prebakePc, bstate, llmInput, ttsText, ack,
                   ttsPromise, fixedB>>

\* processWithLLM (612-631): createCompletion resolved; generateTTSAudio
\* (658-666) is called for a text worth speaking
completionDoneB ==
    /\ variant = "B" /\ llmPc = "gen"
    /\ LET fullText == CleanResponse(Join(response))
           preparing == [BState EXCEPT !.status = "speaking",
                                       !.statusText = "Preparing response..."]
           promise == IF Trim(fullText) = <<>> \/ ~ttsReady THEN "null"
                      ELSE "pending"
           next == IF fullText # <<>> /\ Len(fullText) > MinSpoken
                   THEN IF ack \in {"playing", "blocked"}
                        THEN [preparing EXCEPT !.llmPc = "ackwait"]
                        ELSE afterAckB(preparing, promise, FALSE)
                   ELSE finishB(BState)
       IN  /\ aiText' = fullText
           /\ SetB(next)
           /\ LocalsB(next, promise, fullText)
    /\ UNCHANGED <<loadv, prebaked, prebakePc, ack, fixedB>>

\* processWithLLM (644-648) and then onFinal (965-968): createCompletion rejected
completionFailedB ==
    /\ variant = "B" /\ llmPc = "gen"
    /\ LET failed == [BState EXCEPT !.isProcessing = FALSE, !.llmPc = "none",
                                    !.status = "idle",
                                    !.statusText = "Click to speak"]
           next == IF modelLoaded /\ ~isSpeaking
                   THEN [failed EXCEPT !.timers = [@ EXCEPT !.final = @ + 1]]
                   ELSE failed
       IN  SetB(next) /\ LocalsB(next, ttsPromise, ttsText)
    /\ UNCHANGED <<loadv, prebaked, prebakePc, aiText, ack, fixedB>>

\* the acknowledgment clip ends: ackAudio.onended (627) if processWithLLM
\* waits for it
ackEndedB(played) ==
    /\ variant = "B" /\ ack = "playing"
    /\ ack' = "ended"
    /\ LET next == IF llmPc = "ackwait" THEN afterAckB(BState, ttsPromise, played)
                                        ELSE BState
       IN  SetB(next) /\ LocalsB(next, ttsPromise, ttsText)
    /\ UNCHANGED <<loadv, prebaked, prebakePc, aiText, fixedB>>

\* the safety timeout (629) fires while processWithLLM waits
ackTimeoutB(played) ==
    /\ variant = "B" /\ llmPc = "ackwait"
    /\ LET next == afterAckB(BState, ttsPromise, played)
       IN  SetB(next) /\ LocalsB(next, ttsPromise, ttsText)
    /\ UNCHANGED <<loadv, prebaked, prebakePc, aiText, ack, fixedB>>

\* generateTTSAudio (664-679): state.tts.call settles; ok is whether it
\* resolved
ttsDoneB(ok, played) ==
    /\ variant = "B" /\ ttsPromise = "pending"
    /\ LET settled == IF ok THEN "ready" ELSE "null"
           next == IF llmPc = "ttswait" THEN afterAckB(BState, settled, played)
                                        ELSE BState
       IN  SetB(next) /\ LocalsB(next, settled, ttsText)
    /\ UNCHANGED <<loadv, prebaked, prebakePc, aiText, ack, fixedB>>

\* currentAudio.onended (696-701) or, with failed, currentAudio.onerror
\* (702-706); processWithLLM (641-643) goes on
audioDoneB(failed) ==
    /\ variant = "B" /\ audio = "playing"
    /\ LET next == finishB([BState EXCEPT
                                !.audio = IF failed THEN "error" ELSE "ended",
                                !.isSpeaking = FALSE])
       IN  SetB(next) /\ LocalsB(next, ttsPromise, ttsText)
    /\ UNCHANGED <<loadv, prebaked, prebakePc, aiText, ack, fixedB>>

NextB ==
    \/ \E ok \in BOOLEAN : initTTSB(ok)
    \/ \E ok \in BOOLEAN : prebakeStepB(ok)
    \/ \E ok \in BOOLEAN : initWhisperB(ok)
    \/ \E ok \in BOOLEAN : initLLMB(ok)
    \/ initB
    \/ toggleVoiceB
    \/ \E kind \in {"init", "final", "wait"} : timerB(kind)
    \/ checkSpeechB
    \/ \E text \in Transcripts(session) : onInterimB(text)
    \/ onErrorB
    \/ \E text \in Transcripts(session), ackPlays \in BOOLEAN : onFinalB(text, ackPlays)
    \/ \E piece \in Pieces : onNewTokenB(piece)
    \/ completionDoneB
    \/ completionFailedB
    \/ \E played \in BOOLEAN : ackEndedB(played)
    \/ \E played \in BOOLEAN : ackTimeoutB(played)
    \/ \E ok \in BOOLEAN, played \in BOOLEAN : ttsDoneB(ok, played)
    \/ \E failed \in BOOLEAN : audioDoneB(failed)

Next ==
    \/ \E total \in 1..MaxTotal, loaded \in 0..MaxTotal :
          loaded <= total /\ loadProgress(loaded, total)
    \/ \E pct \in WhisperPcts : whisperProgress(pct)
    \/ NextA \/ NextB \/ NextC

Spec == Init /\ [][Next]_vars

\* the load alone, its loaders reporting progress of any size up to
\* MaxLoadTotal and any percentage
NextLoad ==
    \/ \E total \in 1..MaxLoadTotal, loaded \in 0..MaxLoadTotal :
          loaded <= total /\ loadProgress(loaded, total)
    \/ \E pct \in 0..100 : whisperProgress(pct)
    \/ \E ok \in BOOLEAN : initA(ok)
    \/ \E ok \in BOOLEAN : initTTSB(ok)
    \/ \E ok \in BOOLEAN : prebakeStepB(ok)
    \/ \E ok \in BOOLEAN : initWhisperB(ok)
    \/ \E ok \in BOOLEAN : initLLMB(ok)
    \/ initB
    \/ \E ok \in BOOLEAN : initTTSC(ok)
    \/ \E ok \in BOOLEAN : initC(ok)

SpecLoad == Init /\ [][NextLoad]_vars

\* the runtime delivers something a processWithLLM call waits for: the
\* generation call settles, the acknowledgment clip ends or its safety
\* timeout fires, a synthesis call settles, the response audio that plays
\* ends or fails
RuntimeDelivers ==
    \/ completionDoneA \/ completionFailedA
    \/ completionDoneB \/ completionFailedB
    \/ completionDoneC \/ completionFailedC
    \/ \E played \in BOOLEAN : ackEndedB(played) \/ ackTimeoutB(played)
    \/ \E ok \in BOOLEAN, played \in BOOLEAN : ttsDoneB(ok, played)
    \/ \E failed \in BOOLEAN : audioDoneB(failed)
    \/ \E played \in BOOLEAN : ttsDoneC(played)
    \/ ttsFailedC

\* the program when the runtime delivers every call and media event that
\* is pending
FairSpec == Spec /\ WF_vars(RuntimeDelivers)

----------------------------------------------------------------------------
(* The playback queue of variant B: speakSentence and processQueue         *)
(* (765-839).  Nothing in app.js calls speakSentence, so the queue is      *)
(* exercised by a specification of its own, SpecQueue, in which            *)
(* speakSentence is called with any texts at any moment and the synthesis  *)
(* calls and Audio elements of processQueue settle in any way.  There is   *)
(* no cancellation in it.                                                  *)

\* the number of texts speakSentence is called with
MaxEnqueue == 3

\* the texts speakSentence is called with: three sentences and a blank
QueueTexts == {<<"a">>, <<"b">>, <<"c">>, <<SP>>}

\* the values speakSentence and processQueue read and write, as one value
QState ==
    [isListening |-> isListening, isSpeaking |-> isSpeaking, status |-> status,
     statusText |-> statusText, whisper |-> whisper, lastError |-> lastError,
     speechQueue |-> speechQueue, isSpeakingQueue |-> isSpeakingQueue,
     qPc |-> "idle", qText |-> <<>>, synthLog |-> synthLog]

SetQ(st) ==
    /\ isListening' = st.isListening /\ isSpeaking' = st.isSpeaking
    /\ status' = st.status /\ statusText' = st.statusText
    /\ whisper' = st.whisper /\ lastError' = st.lastError
    /\ speechQueue' = st.speechQueue /\ isSpeakingQueue' = st.isSpeakingQueue
    /\ synthLog' = st.synthLog

\* the processQueue call st has come to, if it awaits state.tts.call
ChainOf(st) ==
    IF st.qPc = "synth" THEN <<[pc |-> "synth", text |-> st.qText, cur |-> FALSE]>>
    ELSE <<>>

\* the calls under way after call i has gone on to st
Advance(i, st) ==
    SubSeq(chains, 1, i - 1) \o ChainOf(st) \o SubSeq(chains, i + 1, Len(chains))

\* what the playback queue leaves alone
queueFixed == <<variant, isProcessing, loadv, userText, aiText, llmv, rec, session,
                micPending, heard, synthv, timers, userStopped, poll, ack, ttsPromise, prebaked,
                prebakePc>>

\* processQueue taking the newest text: speechQueue.pop() for shift()
RECURSIVE processQueue_Lifo(_)
processQueue_Lifo(st) ==
    IF st.speechQueue = <<>>
    THEN [st EXCEPT !.isSpeakingQueue = FALSE, !.qPc = "idle", !.qText = <<>>]
    ELSE LET n == Len(st.speechQueue)
             taken == [st EXCEPT !.isSpeakingQueue = TRUE, !.isSpeaking = TRUE,
                                 !.status = "speaking", !.statusText = "Speaking...",
                                 !.qText = st.speechQueue[n],
                                 !.speechQueue = SubSeq(@, 1, n - 1)]
         IN  IF ttsReady
             THEN [taken EXCEPT !.qPc = "synth", !.synthLog = Append(@, taken.qText)]
             ELSE processQueue_Lifo(taken)

\* processQueue (787-839) up to its return or the await of state.tts.call;
\* without the TTS model it calls itself for the next text (832-835)
RECURSIVE processQueue(_)
processQueue(st) ==
    IF st.speechQueue = <<>>
    THEN [st EXCEPT !.isSpeakingQueue = FALSE, !.qPc = "idle", !.qText = <<>>]
    ELSE LET taken == [st EXCEPT !.isSpeakingQueue = TRUE, !.isSpeaking = TRUE,
                                 !.status = "speaking", !.statusText = "Speaking...",
                                 !.qText = Head(st.speechQueue),
                                 !.speechQueue = Tail(@)]
         IN  IF ttsReady
             THEN [taken EXCEPT !.qPc = "synth", !.synthLog = Append(@, taken.qText)]
             ELSE processQueue(taken)

\* speakSentence (769-784)
speakSentence(text) ==
    /\ variant = "B" /\ Len(enqueued) < MaxEnqueue
    /\ IF Trim(text) = <<>> THEN UNCHANGED vars
       ELSE LET quiet == IF whisper
                         THEN [stopContinuousListening(QState) EXCEPT
                                  !.isListening = FALSE]
                         ELSE QState
                pushed == [quiet EXCEPT !.speechQueue = Append(@, text)]
                next == IF isSpeakingQueue THEN pushed ELSE processQueue(pushed)
            IN  /\ SetQ(next)
                /\ chains' = chains \o ChainOf(next)
                /\ enqueued' = Append(enqueued, text)
                /\ UNCHANGED <<audio, currentAudio, liveUrls, playLog, qFault, queueFixed>>

\* processQueue (801-830): state.tts.call resolved for call i, the object
\* URL and the Audio element are made and play() is called; plays is whether
\* it starts
queueSynthesisDone(i, plays) ==
    /\ variant = "B" /\ i \in DOMAIN chains /\ chains[i].pc = "synth"
    /\ chains' = [j \in DOMAIN chains |->
                     IF j = i THEN [pc |-> IF plays THEN "playing" ELSE "blocked",
                                    text |-> chains[i].text, cur |-> TRUE]
                     ELSE [chains[j] EXCEPT !.cur = FALSE]]
    /\ currentAudio' = TRUE
    /\ audio' = IF plays THEN "playing" ELSE "blocked"
    /\ liveUrls' = liveUrls + 1
    /\ playLog' = IF plays THEN Append(playLog, chains[i].text) ELSE playLog
    /\ qFault' = (qFault \/ ~plays)
    /\ UNCHANGED <<isListening, isSpeaking, status, statusText, whisper, lastError,
                   speechQueue, isSpeakingQueue, enqueued, synthLog,
                   queueFixed>>

\* processQueue (836-838): state.tts.call rejected for call i
queueSynthesisFailed(i) ==
    /\ variant = "B" /\ i \in DOMAIN chains /\ chains[i].pc = "synth"
    /\ LET next == processQueue(QState)
       IN  SetQ(next) /\ chains' = Advance(i, next)
    /\ qFault' = TRUE
    /\ UNCHANGED <<audio, currentAudio, liveUrls, enqueued, playLog, queueFixed>>

\* the element of call i: onended (820-824) or, with failed, onerror
\* (825-829): the URL is revoked, then processQueue is called
queueAudioDone(i, failed) ==
    /\ variant = "B" /\ i \in DOMAIN chains
    /\ IF failed THEN chains[i].pc \in {"playing", "blocked"}
                 ELSE chains[i].pc = "playing"
    /\ audio' = IF ~chains[i].cur THEN audio
                ELSE IF failed THEN "error" ELSE "ended"
    /\ liveUrls' = liveUrls - 1
    /\ LET next == processQueue(QState)
       IN  SetQ(next) /\ chains' = Advance(i, next)
    /\ qFault' = (qFault \/ failed)
    /\ UNCHANGED <<currentAudio, enqueued, playLog, queueFixed>>

\* variant B after a load, listening or not, with or without the TTS model
InitQueue ==
    /\ variant = "B" /\ initPc = "ready"
    /\ modelLoaded = TRUE /\ ttsReady \in BOOLEAN /\ whisperReady = TRUE
    /\ progressPct = 100 /\ loaderAt = <<0, 1>>
    /\ progressText = "Ready!" /\ loadingHidden = TRUE
    /\ whisper \in BOOLEAN
    /\ isListening = whisper /\ isProcessing = FALSE /\ isSpeaking = FALSE
    /\ status = (IF whisper THEN "listening" ELSE "idle")
    /\ statusText = (IF whisper THEN "Listening..." ELSE "Click to start")
    /\ userText = <<>> /\ aiText = <<>>
    /\ llmPc = "none" /\ llmInput = <<>> /\ response = <<>> /\ ttsText = <<>>
    /\ rec = "off" /\ session = (IF whisper THEN 1 ELSE 0) /\ micPending = 0
    /\ heard = "none" /\ lastError = "none"
    /\ utter = 0 /\ utterText = <<>> /\ utterDying = 0 /\ audios = 0
    /\ timers = [init |-> 0, final |-> 0, wait |-> 0]
    /\ userStopped = FALSE
    /\ poll = 0 /\ ack = "none" /\ ttsPromise = "none"
    /\ prebaked = 0 /\ prebakePc = 0
    /\ audio = "none" /\ currentAudio = FALSE
    /\ speechQueue = <<>> /\ isSpeakingQueue = FALSE
    /\ chains = <<>> /\ liveUrls = 0
    /\ enqueued = <<>> /\ synthLog = <<>> /\ playLog = <<>> /\ qFault = FALSE

NextQueue ==
    \/ \E text \in QueueTexts : speakSentence(text)
    \/ \E i \in DOMAIN chains, plays \in BOOLEAN : queueSynthesisDone(i, plays)
    \/ \E i \in DOMAIN chains : queueSynthesisFailed(i)
    \/ \E i \in DOMAIN chains, failed \in BOOLEAN : queueAudioDone(i, failed)

SpecQueue == InitQueue /\ [][NextQueue]_vars

\* a pending state.tts.call of processQueue settles
SynthesisSettles ==
    \E i \in DOMAIN chains :
        \/ queueSynthesisFailed(i)
        \/ \E plays \in BOOLEAN : queueSynthesisDone(i, plays)

\* an element of processQueue that plays comes to its end or fails
PlaybackSettles ==
    \E i \in DOMAIN chains :
        chains[i].pc = "playing" /\ \E failed \in BOOLEAN : queueAudioDone(i, failed)

\* the playback queue when the runtime delivers every pending callback: a
\* promise that is pending settles, an element that plays ends or fails
FairSpecQueue == SpecQueue /\ WF_vars(SynthesisSettles) /\ WF_vars(PlaybackSettles)

\* the playback queue with the clicks on the voice button
NextQueueCancel == NextQueue \/ toggleVoiceB

SpecQueueCancel == InitQueue /\ [][NextQueueCancel]_vars

----------------------------------------------------------------------------
(* Operators the claims are stated with. *)

\* a click on the voice button, in whichever variant runs
Click == toggleVoiceA \/ toggleVoiceB \/ toggleVoiceC

\* a recognition session of the browser ends (variants A and C)
SessionEnds == onendA \/ onendC

\* this step starts a generation call
GenerationStarts == llmPc # "gen" /\ llmPc' = "gen"

\* a recognition session exists: started, being started or winding down
Recognising == rec # "off" \/ whisper

\* response audio sounds: an Audio element of the response or an utterance
ResponsePlaying == audios > 0 \/ utter > 0 \/ audio = "playing"

\* the number of turn flags that are true
TurnFlags ==
    (IF isListening THEN 1 ELSE 0) + (IF isProcessing THEN 1 ELSE 0)
    + (IF isSpeaking THEN 1 ELSE 0)

----------------------------------------------------------------------------
(* C1: in variant B recognition is never active (so never started) while   *)
(* the response audio plays, speechQueue is non-empty or isSpeakingQueue   *)
(* is true.                                                                *)
C1_NoRecognitionWhilePlayingB ==
    (variant = "B" /\ (audio = "playing" \/ speechQueue # <<>> \/ isSpeakingQueue))
        => ~whisper

(* C2: in variant C no recognition session is started or active while the  *)
(* Audio element of speak or the fallback utterance plays.                 *)
C2_NoRecognitionWhilePlayingC ==
    (variant = "C" /\ (audios > 0 \/ utter > 0)) => rec = "off"

(* C3: in every reachable state of every variant at most one of            *)
(* isListening, isProcessing and isSpeaking is true.                       *)
C3_AtMostOneTurnFlag == TurnFlags <= 1

(* C4: a click made while the status is listening, thinking or speaking    *)
(* leaves the status idle and the three flags false.                       *)
C4_ClickForcesIdle ==
    [][(Click /\ modelLoaded /\ status \in {"listening", "thinking", "speaking"})
          => (status' = "idle" /\ ~isListening' /\ ~isProcessing' /\ ~isSpeaking')]_vars

(* C5: a click made while isSpeaking is true halts the response audio at   *)
(* once: right after it no Audio element and no utterance of the response  *)
(* plays and speechQueue is empty.                                         *)
C5_CancelHaltsPlayback ==
    [][(Click /\ modelLoaded /\ isSpeaking)
          => (audios' = 0 /\ utter' = 0 /\ audio' # "playing" /\ speechQueue' = <<>>)]_vars

\* The controller is idle after a successful load: the status is idle, no
\* recognition session exists or is asked for, nothing plays and no
\* generation or synthesis call is pending.
Idle ==
    /\ initPc = "ready" /\ modelLoaded
    /\ status = "idle"
    /\ ~Recognising /\ micPending = 0
    /\ ~ResponsePlaying /\ ack # "playing"
    /\ llmPc \in {"none", "play"} /\ ttsPromise # "pending"
    /\ variant = "B" => whisperReady

(* C6: in every idle state a click starts a listening session (in variant  *)
(* A: asks for the microphone, whose grant starts it).  The bound on the   *)
(* number of sessions is the model's, not the program's.                   *)
C6_IdleClickStartsListening ==
    (Idle /\ session < MaxSessions)
        => ENABLED (Click /\ (rec' = "starting" \/ whisper' \/ micPending' = 1))

(* C7: in variants A and C the end of a recognition session has exactly    *)
(* one outcome: a generation call starts or the status is idle, not both   *)
(* (idle by the error handler, then thinking) and not neither.             *)
C7_ExactlyOneOutcome ==
    [][SessionEnds => /\ GenerationStarts # (status' = "idle")
                      /\ rec = "errored" => ~GenerationStarts]_vars

(* C8: a generation call starts only in a session that delivered a final   *)
(* result whose trimmed transcript is not empty.                           *)
C8_GenerationNeedsFinal ==
    [][GenerationStarts => heard' = "final"]_vars

(* C9: when a session ends that delivered no non-blank transcript, the     *)
(* status becomes idle and no generation call starts.                      *)
C9_BlankSessionEndsIdle ==
    [][(SessionEnds /\ heard = "none")
          => (status' = "idle" /\ ~GenerationStarts)]_vars

(* C10: the text handed to processWithLLM when a session ends was heard in *)
(* that session.                                                           *)
C10_InputOfThisSession ==
    [][(SessionEnds /\ GenerationStarts)
          => \A i \in 1..Len(llmInput') : llmInput'[i] \in {SP, Word(session)}]_vars

(* C11: while a generation turn is in progress (isProcessing is true) no   *)
(* recognition session exists: none is active and none is being started.   *)
C11_NoRecognitionWhileProcessing == isProcessing => ~Recognising

\* the generation call of the running turn rejects
GenerationFails == completionFailedA \/ completionFailedB \/ completionFailedC

\* the status texts of the program that report a failure (156, 158, 202, 268)
ErrorTexts == {"No speech detected", "Error - try again", "Mic access denied"}

\* this step makes no synthesis call: no utterance is queued, no neural
\* synthesis request is in flight after it and no Audio element starts
NoSynthesisCall ==
    /\ utter' <= utter /\ audios' <= audios
    /\ llmPc' \notin {"tts", "ttswait", "ackwait", "play"}
    /\ ttsPromise' # "pending"
    /\ audio' = "playing" => audio = "playing"

(* C12: when createCompletion rejects, the status becomes idle, no         *)
(* synthesis call is made and the status text reports an error, in every   *)
(* variant.                                                                *)
C12_GenerationFailureShown ==
    [][GenerationFails
          => (status' = "idle" /\ NoSynthesisCall /\ statusText' \in ErrorTexts)]_vars

(* C13: when createCompletion rejects after pieces were streamed, no       *)
(* partial output is kept: the displayed AI text is empty afterwards and   *)
(* nothing is spoken.                                                      *)
C13_NoPartialOutputKept ==
    [][(GenerationFails /\ response # <<>>)
          => (aiText' = <<>> /\ NoSynthesisCall)]_vars

\* the neural synthesis call (state.tts.call) of the running turn rejects
SynthesisFails == ttsFailedC \/ \E played \in BOOLEAN : ttsDoneB(FALSE, played)

(* C14: when the neural synthesis call fails for a non-empty response, the *)
(* native fallback is handed exactly that text and the controller is       *)
(* Speaking, in variants B and C.                                          *)
C14_FallbackSpeaksSameText ==
    [][(SynthesisFails /\ ttsText # <<>>)
          => /\ utter' = utter + 1 /\ utterText' = ttsText
             /\ isSpeaking' /\ status' = "speaking"]_vars

\* the generation call of the running turn resolves
GenerationCompletes == completionDoneA \/ completionDoneB \/ completionDoneC

\* the cleaned response of the running generation call: end marker and what
\* follows it stripped, then trimmed
FinalResponse == CleanResponse(Join(response))

(* C15: when the neural TTS runtime did not load, every non-empty response *)
(* is spoken by the browser's speech synthesis, in variants B and C.       *)
C15_SpeaksWithoutNeuralTTS ==
    [][((completionDoneB \/ completionDoneC) /\ ~ttsReady /\ FinalResponse # <<>>)
          => (utter' = utter + 1 /\ utterText' = FinalResponse)]_vars

\* the language model did not load
LoadFailed == initPc = "failed"

\* the page of a failed load: the error text on the overlay, which is not
\* hidden, and a controller that never left its initial state
LoadFailedState ==
    /\ ~modelLoaded /\ ~loadingHidden
    /\ progressText \in {"Error loading LLM", "Error loading models"}
    /\ status = "loading" /\ TurnFlags = 0
    /\ ~Recognising /\ session = 0 /\ micPending = 0
    /\ llmPc = "none"

(* C16: after the language model failed to load, the error text stays on   *)
(* the overlay, which is never hidden, modelLoaded stays false, nothing    *)
(* retries the load, and a click changes nothing, so no turn begins.       *)
C16_LoadFailureIsPersistent ==
    /\ [](LoadFailed => LoadFailedState)
    /\ [][LoadFailed => (LoadFailed' /\ (Click => UNCHANGED vars))]_vars

C16_Witness == LoadFailed /\ ENABLED Click

\* the recognition runtime delivers an error event
RecognitionError == (\E error \in RecErrors : onerrorA(error)) \/ onerrorC \/ onErrorB

\* the reasons after which always-on listening may go on
BenignErrors == {"no-speech", "aborted"}

\* the texts the status line shows in Idle: a failure text or the prompt
IdleTexts == ErrorTexts \cup {"Click to speak", "Click to start"}

(* C17: after a recognition error event the controller is Idle             *)
(* (isListening false, status idle, a text on the status line); only in    *)
(* variant B and after a benign error may it be Listening instead, with a  *)
(* live recognition session.                                               *)
C17_ErrorLeavesIdle ==
    [][RecognitionError
          => \/ ~isListening' /\ status' = "idle" /\ statusText' \in IdleTexts
             \/ /\ variant = "B" /\ lastError' \in BenignErrors
                /\ isListening' /\ whisper' /\ status' = "listening"]_vars

\* this step makes a synthesis request for the text: an utterance handed to
\* speechSynthesis.speak, or a call of state.tts.call that is now awaited
SynthesisRequestFor(text) ==
    \/ utter' = utter + 1 /\ utterText' = text
    \/ llmPc' = "tts" /\ ttsText' = text
    \/ ttsPromise' = "pending" /\ ttsText' = text

(* C18: when a generation call completes with a non-empty cleaned          *)
(* response, the status becomes speaking and a synthesis request is made   *)
(* for exactly that text; when the cleaned response is empty, no synthesis *)
(* request is made and Speaking is not entered.                            *)
C18_SpeaksNonEmptyResponse ==
    [][GenerationCompletes
          => IF FinalResponse # <<>>
             THEN status' = "speaking" /\ SynthesisRequestFor(FinalResponse)
             ELSE /\ NoSynthesisCall /\ status' # "speaking"
                  /\ isSpeaking' => isSpeaking]_vars

\* The steps of a turn in which nothing fails and the user does not click:
\* the session starts, hears, ends on a final transcript; generation
\* completes with a response that is synthesized; synthesis and playback
\* succeed; and, in variant B, the timers and polls fire.
TurnStep ==
    \/ onstartA \/ onstartC
    \/ SessionEnds /\ heard = "final" /\ rec # "errored"
    \/ \E text \in Transcripts(session), ackPlays \in BOOLEAN :
          onFinalB(text, ackPlays) /\ Trim(text) # <<>>
    \/ \E text \in Transcripts(session) : onInterimB(text)
    \/ /\ GenerationCompletes /\ FinalResponse # <<>>
       /\ variant = "B" => (ttsReady /\ Len(FinalResponse) > MinSpoken)
    \/ ttsDoneC(TRUE) \/ ttsDoneB(TRUE, TRUE)
    \/ ackEndedB(TRUE) \/ ackTimeoutB(TRUE)
    \/ utteranceDoneA \/ utteranceDoneC \/ audioDoneC \/ audioDoneB(FALSE)
    \/ \E kind \in {"init", "final", "wait"} : timerB(kind)
    \/ checkSpeechB

\* the order of the displayed states: Idle, Listening, Thinking, Speaking and
\* then Idle (variants A and C) or Listening (variant B)
TurnOrder(from, to) ==
    \/ from = "idle" /\ to = "listening"
    \/ from = "listening" /\ to = "thinking"
    \/ from = "thinking" /\ to = "speaking"
    \/ from = "speaking" /\ to = (IF variant = "B" THEN "listening" ELSE "idle")

(* C19: in a turn in which nothing fails and the user does not click, the  *)
(* displayed state changes only in the order Listening, Thinking,          *)
(* Speaking, then Idle (A, C) or Listening (B), and Speaking is left only  *)
(* when no response audio plays any more.                                  *)
C19_TurnOrder ==
    [][(TurnStep /\ status' # status)
          => /\ TurnOrder(status, status')
             /\ status = "speaking" => ~ResponsePlaying']_vars

\* s is the beginning of t
IsPrefix(s, t) == Len(s) <= Len(t) /\ s = SubSeq(t, 1, Len(s))

\* s is t with some elements left out, the rest in t's order
RECURSIVE IsSubseq(_, _)
IsSubseq(s, t) ==
    IF s = <<>> THEN TRUE
    ELSE IF t = <<>> THEN FALSE
    ELSE IF Head(s) = Head(t) THEN IsSubseq(Tail(s), Tail(t))
    ELSE IsSubseq(s, Tail(t))

(* C20: the playback queue is first in, first out.  Without cancellation,  *)
(* the texts are synthesized in the order speakSentence got them, none     *)
(* left out, and their audio starts in that order; a synthesis request is  *)
(* in flight only while no audio of the queue plays and every object URL   *)
(* made before is revoked; and what waits in the queue is what was pushed  *)
(* after the texts already taken.  When no synthesis and no playback      *)
(* failed and the queue has drained, every text pushed has been played.    *)
C20_QueueIsFifo ==
    /\ ttsReady => IsPrefix(synthLog, enqueued)
    /\ IsSubseq(playLog, synthLog)
    /\ (ttsReady /\ ~qFault /\ chains = <<>>) => playLog = enqueued
    /\ ttsReady => synthLog \o speechQueue = enqueued
    /\ \A i \in DOMAIN chains :
           chains[i].pc = "synth" => (audio # "playing" /\ liveUrls = 0)
    /\ liveUrls <= 1

\* the second of three different texts plays, after the first, while the
\* third, pushed in the meantime, waits in the queue
C20_Witness ==
    /\ Len(playLog) = 2 /\ playLog[1] # playLog[2]
    /\ chains = <<[pc |-> "playing", text |-> playLog[2], cur |-> TRUE]>>
    /\ audio = "playing"
    /\ Len(speechQueue) = 1 /\ speechQueue[1] # playLog[2]
    /\ playLog \o speechQueue = enqueued

\* the processQueue calls that await a synthesis or the end of a playing element
ActiveChains == {i \in DOMAIN chains : chains[i].pc \in {"synth", "playing"}}

(* C21: no two items of the playback queue are synthesized or played at    *)
(* the same time: at most one processQueue call is under way, whatever     *)
(* the order of speakSentence calls, synthesis completions, playback       *)
(* events and clicks that cancel.                                          *)
C21_OneChainAtATime == Cardinality(ActiveChains) <= 1

\* a step in which the last item of the playback queue finishes: a
\* processQueue call ends and none is left, with nothing waiting
LastItemFinishes == chains # <<>> /\ chains' = <<>> /\ speechQueue' = <<>>

\* the playback queue is empty and the controller is not speaking
QueueIdle == speechQueue = <<>> /\ ~isSpeakingQueue /\ ~isSpeaking

(* C22: the playback queue is empty and the controller idle exactly when   *)
(* the last queued item finishes: speechQueue is empty, isSpeakingQueue    *)
(* and state.isSpeaking are false right after that step, and not together  *)
(* while an item waits, is synthesized or plays.                           *)
C22_IdleExactlyWhenDrained ==
    /\ []((chains # <<>> \/ speechQueue # <<>>) => ~QueueIdle)
    /\ [][LastItemFinishes => QueueIdle']_vars

(* C23: the playback queue always advances: when the runtime delivers its  *)
(* callbacks, a text that waits in the queue is eventually taken from it,  *)
(* whether the items before it succeed or fail (TTS not ready, synthesis   *)
(* throws, audio error event, play() rejected).                            *)
C23_QueueAdvances == (speechQueue # <<>>) ~> (speechQueue = <<>>)

\* the playback queue is empty and the controller idle
StoppedAlready == QueueIdle /\ chains = <<>> /\ status = "idle"

PrebakeComplete == prebakePc = 0

(* C25: the acknowledgment cache is filled once at startup, after the TTS  *)
(* runtime is ready, with at most one entry per phrase, and does not       *)
(* change afterwards: it is complete before a generation turn uses it and  *)
(* no entry is ever removed.                                               *)
C25_AckCacheImmutable ==
    /\ [](prebaked <= MaxPhrases /\ (prebaked > 0 => ttsReady))
    /\ [](llmPc # "none" => PrebakeComplete)
    /\ [][prebaked' >= prebaked]_vars

(* C26: every processWithLLM call that sets state.isProcessing to true     *)
(* sets it back to false later, on every path, when the runtime delivers   *)
(* every call and media event that is pending.                             *)
C26_ProcessingEnds == isProcessing ~> ~isProcessing

\* this step ends a processWithLLM call of variant B, and with it the
\* onFinal call that awaited it
TurnEndsB == variant = "B" /\ llmPc # "none" /\ llmPc' = "none"

\* the calls of startAlwaysOnListening to come: the restart timers that
\* are pending and the polls of waitForSpeechEnd, each of which ends in one
RestartsPending == timers.final + timers.wait + poll

(* C27: in the always-on variant listening is resumed exactly once after   *)
(* each generation turn: the step that ends the turn schedules one call of *)
(* startAlwaysOnListening, not two (onFinal's restart timer and the one of *)
(* waitForSpeechEnd) and not none.                                         *)
C27_ResumedOnce == [][TurnEndsB => RestartsPending' = RestartsPending + 1]_vars

\* this step starts listening in the always-on variant
ListeningStartsB == variant = "B" /\ ~whisper /\ whisper'

(* C28: in the always-on variant, once a click on the voice button has     *)
(* stopped listening or cancelled speech, recognition is not started again *)
(* before the next click: no restart timer scheduled before the click      *)
(* resumes listening on its own.                                           *)
C28_StaysStoppedUntilClick == [][(userStopped /\ ~Click) => ~ListeningStartsB]_vars

(* C29: in the Web Speech variant recognition.start() is executed only     *)
(* when, at that moment, isListening, isProcessing and isSpeaking are all  *)
(* false and no recognition session is active or starting, also when       *)
(* several clicks overlap the microphone-permission request.               *)
C29_StartOnlyWhenIdle ==
    [][micGrantedA => (~isListening /\ ~isProcessing /\ ~isSpeaking /\ rec = "off")]_vars

\* this step is a handler that calls processWithLLM: onend with something
\* heard (A, C), onFinal with a transcript while no turn runs (B)
CallsProcessWithLLM ==
    \/ (onendA \/ onendC) /\ Trim(StripQuotes(userText)) # <<>>
    \/ \E text \in Transcripts(session), ackPlays \in BOOLEAN :
          onFinalB(text, ackPlays) /\ Trim(text) # <<>> /\ ~isProcessing

(* C30: at most one generation call is in flight at any time:              *)
(* state.isProcessing is true as long as a processWithLLM call runs, and a *)
(* processWithLLM call made while it is true, or while the model is not    *)
(* loaded, starts no generation and leaves isProcessing, isSpeaking, the   *)
(* status and the displayed AI text as they are.                           *)
C30_OneGenerationAtATime ==
    /\ [](llmPc # "none" => isProcessing)
    /\ [][(CallsProcessWithLLM /\ (isProcessing \/ ~modelLoaded)) =>
            UNCHANGED <<isProcessing, isSpeaking, status, statusText, aiText, llmv>>]_vars

\* a recognition session that heard something is about to end while a
\* generation call is in flight: onend will call processWithLLM
C30_Witness ==
    /\ isProcessing /\ llmPc = "gen"
    /\ Trim(StripQuotes(userText)) # <<>>
    /\ ENABLED (onendA \/ onendC)

\* the acknowledgment clip of the running turn and the generated response
\* of that turn sound at the same time
AckOverlapsResponse == variant = "B" /\ llmPc = "play" /\ ack = "playing" /\ audio = "playing"

(* C31: in the always-on variant the playback of the generated response    *)
(* never starts while the acknowledgment clip started for the same turn    *)
(* still plays: the two audios never sound at the same time.               *)
C31_ResponseAfterAck == ~AckOverlapsResponse

\* the loader's progress does not go back in this step: a phase of the
\* load starts, or the loader reports at least the fraction it reported last
LoaderAdvances ==
    \/ initPc' # initPc
    \/ loaderAt'[1] * loaderAt[2] >= loaderAt[1] * loaderAt'[2]

\* the percentages of each phase of the load of variant B
PhaseRangeB ==
    CASE initPc = "tts" -> 0..25
      [] initPc = "whisper" -> 30..55
      [] initPc \in {"llm", "prewarm"} -> 60..95
      [] initPc = "ready" -> {100}
      [] OTHER -> {0}

(* C32: for a loader that reports whole numbers with 0 <= done <= of,      *)
(* of > 0, and percentages in 0..100, every percentage passed to           *)
(* updateProgress is a whole number in 0..100; in a successful load of the *)
(* always-on variant the phases use the ranges 0..25, 30..55, 60..95 and   *)
(* then 100, and when the loader's progress does not go back the reported  *)
(* percentage does not go down.                                            *)
C32_ProgressInRangeAndRising ==
    /\ [](progressPct \in 0..100)
    /\ [](variant = "B" => progressPct \in PhaseRangeB)
    /\ [][(variant = "B" /\ initPc' # "failed" /\ LoaderAdvances) =>
            progressPct' >= progressPct]_vars

\* the LLM loader of variant B has reported half of the download, after
\* the TTS and Whisper phases: 60 + Math.round(17.5) = 78
C32_Witness ==
    /\ variant = "B" /\ initPc = "llm" /\ ttsReady /\ whisperReady
    /\ loaderAt = <<1, 2>> /\ progressPct = 78

====
